---- MODULE Spec2Model ----
(***************************************************************************)
(* HTTPMiddleware (src/__init__.py): the logging middleware of a FastAPI   *)
(* application.  proxy either forwards an excluded request to call_next    *)
(* or runs _proxy, which builds a context dict, captures the request body, *)
(* logs "HTTP Request", awaits call_next, logs "HTTP Error" or drains the  *)
(* response body iterator and logs "HTTP Response", and returns a rebuilt  *)
(* Response.                                                               *)
(*                                                                         *)
(* Strings and byte strings are sequences of tokens.  A dict is a function *)
(* whose domain is its set of keys.  A task is one call of proxy; every    *)
(* variable is a function of the task, as every name of the code is a      *)
(* local of the coroutine.  The steps are the segments of the coroutine    *)
(* between its awaits (request.body(), call_next, the body iterator) and   *)
(* its calls of log.                                                       *)
(***************************************************************************)
EXTENDS Integers, Sequences, FiniteSets, TLC

VARIABLES
    pc,            \* task -> the await or log call the coroutine stands at
    request,       \* task -> the Request: method, url, base_url, headers
    receive,       \* task -> request._receive: the stream, or __receive with its body
    wire,          \* task -> the body the client sent, once the stream delivered it
    route,         \* task -> request.scope["route"].path, <<>> while there is none
    context,       \* task -> the context dict of _proxy (no key before init_context)
    events,        \* task -> the calls of log that printed: event, level, context as printed
    downstream,    \* task -> call_next: how often invoked, and how it finished
    seen,          \* task -> the bodies the downstream handler read, in order
    iterator,      \* task -> response.body_iterator: the chunks it has yielded so far
    content,       \* task -> the local content of parse_response
    elapsedAt,     \* task -> the clock readings taken for context["elapsed"], in order
    history,       \* task -> the order of the log calls, of call_next's start and end,
                   \*         and of the calls of json.loads
    result,        \* task -> how proxy finished: pending, returned, raised
    exclude_paths  \* task -> the exclude_paths argument proxy was called with

vars == <<pc, request, receive, wire, route, context, events, downstream, seen,
          iterator, content, elapsedAt, history, result, exclude_paths>>

--------------------------------------------------------------------------
(* Bounds of the model *)

\* longest request body, in tokens
MaxBodyLen == 2
\* most chunks a response body iterator yields
MaxChunks == 2
\* the wall clock reads 0 .. MaxClock steps
MaxClock == 1
\* most reads of the request body by the downstream handler
MaxReads == 2

--------------------------------------------------------------------------
(* Dicts *)

EmptyDict == <<>>

Put(d, k, v) == [x \in (DOMAIN d) \cup {k} |-> IF x = k THEN v ELSE d[x]]

Has(d, k) == k \in DOMAIN d

--------------------------------------------------------------------------
(* Text *)

\* Sequences over S of length at most n.
SeqsUpTo(S, n) == UNION {[1..k -> S] : k \in 0..n}

RECURSIVE Concat(_)
Concat(ss) == IF ss = <<>> THEN <<>> ELSE Head(ss) \o Concat(Tail(ss))

RECURSIVE Without(_, _)
Without(s, x) ==
    IF s = <<>> THEN <<>>
    ELSE IF Head(s) = x THEN Without(Tail(s), x)
    ELSE <<Head(s)>> \o Without(Tail(s), x)

\* bytes.decode("utf-8"): an ASCII token is one character, the lead byte "c3"
\* followed by the continuation byte "a9" is the character "e'", and a lead byte
\* without its continuation, or a continuation alone, is a UnicodeDecodeError.
RECURSIVE Utf8Valid(_)
Utf8Valid(b) ==
    IF b = <<>> THEN TRUE
    ELSE IF Head(b) = "c3"
         THEN Len(b) >= 2 /\ b[2] = "a9" /\ Utf8Valid(Tail(Tail(b)))
    ELSE IF Head(b) = "a9" THEN FALSE
    ELSE Utf8Valid(Tail(b))

RECURSIVE Utf8Decode(_)
Utf8Decode(b) ==
    IF b = <<>> THEN <<>>
    ELSE IF Head(b) = "c3" THEN <<"e'">> \o Utf8Decode(Tail(Tail(b)))
    ELSE <<Head(b)>> \o Utf8Decode(Tail(b))

\* str.encode("utf-8"), as Response does with a str content.
RECURSIVE Utf8Encode(_)
Utf8Encode(s) ==
    IF s = <<>> THEN <<>>
    ELSE IF Head(s) = "e'" THEN <<"c3", "a9">> \o Utf8Encode(Tail(s))
    ELSE <<Head(s)>> \o Utf8Encode(Tail(s))

\* json.loads: the token "{}" is the text of one JSON object; a text is valid
\* JSON when it is exactly one value.
JsonValid(payload) == payload = <<"{}">>

\* json.loads: the token "[[" is a run of opening brackets longer than the
\* interpreter's recursion limit.  On a text that starts with it the decoder
\* raises RecursionError, which is not a JSONDecodeError; on any other text
\* that is not one value it raises JSONDecodeError.
JsonTooDeep(payload) == payload # <<>> /\ Head(payload) = "[["

--------------------------------------------------------------------------
(* Exceptions: class, message (str(e)) and traceback *)

\* The classes `except Exception` catches; CancelledError is a BaseException.
ExceptionClasses == {"RuntimeError", "TimeoutError", "ClientDisconnect",
                     "UnicodeDecodeError", "OSError", "RecursionError"}

IsException(e) == e.cls \in ExceptionClasses

Exc(cls, msg, tb) == [cls |-> cls, msg |-> msg, tb |-> tb]

HandlerError == Exc("RuntimeError", "handler failed", <<"File handler">>)
HandlerTimeout == Exc("TimeoutError", "handler timed out", <<"File wait_for">>)
Cancelled == Exc("CancelledError", "", <<"File call_next">>)
BodyTimeout == Exc("TimeoutError", "body read timed out", <<"File receive">>)
BodyCancelled == Exc("CancelledError", "", <<"File receive">>)
StreamError == Exc("RuntimeError", "stream failed", <<"File body_stream">>)
DecodeError == Exc("UnicodeDecodeError", "invalid start byte", <<"File decode">>)
LogError == Exc("OSError", "broken pipe", <<"File log">>)
NestingError == Exc("RecursionError", "maximum recursion depth exceeded",
                    <<"File json/decoder">>)

\* What call_next, request.body() and the body iterator can raise.
CallNextFailures == {HandlerError, HandlerTimeout, Cancelled}
BodyFailures == {BodyTimeout, BodyCancelled}
StreamFailures == {StreamError}

--------------------------------------------------------------------------
(* Requests and responses *)

\* The methods of line 107 with GET among them.
BodyMethodsAndGet == {"GET", "PATCH", "POST", "PUT"}

BodyMethods == {"PATCH", "POST", "PUT"}
Methods == BodyMethods \cup {"GET"}

BaseUrl == <<"http://h", "/">>
Paths == { <<"/", "users", "/", "42">>,
           <<"/", "healthcheck">>,
           <<"/", "api", "/", "docs">> }

\* str(request.url) for a path: scheme and host, then the path.
UrlOf(path) == <<"http://h">> \o path

ContentTypes == {"application/json", "text/plain"}

Requests ==
    [method : Methods, path : Paths,
     headers : {[x \in {"content-type"} |-> c] : c \in ContentTypes}]

ReqBytes == {"{}", "\n", "c3", "[["}
Bodies == SeqsUpTo(ReqBytes, MaxBodyLen)

\* The path template of the route the router matched, or none (<<>>).
RouteOf(path) ==
    IF path = <<"/", "users", "/", "42">> THEN <<"/", "users", "/", "{id}">>
    ELSE path
NoRoute == <<>>

Chunks == { <<"a">>, <<"c3">>, <<"a9">> }

\* A response of call_next: its body is the iterator's, so body is empty here.
Response(status_code, headers, media_type) ==
    [made_by |-> "call_next", status_code |-> status_code, headers |-> headers,
     media_type |-> media_type, body |-> <<>>]

\* The responses call_next can return: a 200 with one header and no media
\* type, and a 404 that sets two cookies and has a media type.
Responses ==
    { Response(200, << <<"content-type", "text/plain">> >>, "None"),
      Response(404, << <<"set-cookie", "a=1">>, <<"set-cookie", "b=2">> >>,
               "text/html") }

\* The wall clock, in microseconds: the readings datetime.utcnow() can give.
Clock == {k * 80 : k \in 0..MaxClock}

--------------------------------------------------------------------------
(* The module's constants and pure helpers *)

\* EXCLUDE_PATHS: each pattern is ".+" followed by a literal; the literal is
\* what the set holds here.
EXCLUDE_PATHS ==
    { <<"/", "live">>, <<"/", "ready">>, <<"/", "healthcheck">>,
      <<"/", "docs">>, <<"/", "openapi.json">>, <<"/", "favicon.ico">> }

\* re.match(".+" literal, s): anchored at the start of s and not at its end;
\* ".+" takes at least one character, then the literal follows.
ReMatch(literal, s) ==
    \E i \in 1..(Len(s) - Len(literal)) :
        \A k \in 1..Len(literal) : s[i + k] = literal[k]

\* The exclude_paths argument of proxy: None (the default), or a set of
\* patterns, held as the set of their literals.
None == [given |-> FALSE, paths |-> {}]
PathList(patterns) == [given |-> TRUE, paths |-> patterns]

\* proxy's test with the patterns matched against the path alone.
ExcludedByPath(paths, url) ==
    /\ paths.given /\ paths.paths # {}
    /\ \E path \in paths.paths : ReMatch(path, Tail(url))

\* proxy's test: exclude_paths is truthy (not None, not empty) and some
\* pattern matches str(request.url).
Excluded(paths, url) ==
    /\ paths.given /\ paths.paths # {}
    /\ \E path \in paths.paths : ReMatch(path, url)

\* logging.INFO and logging.ERROR
INFO == 20
ERROR == 40

\* FastAPI().title of the app in request.scope["app"]
AppTitle == "FastAPI"

\* init_context(request), with the reading of datetime.utcnow()
init_context(req, now) ==
    LET base == [k \in {"method", "query_params", "timestamp", "level_name", "level",
                        "url", "url_mask", "request_path", "headers"} |->
                    CASE k = "method" -> req.method
                      [] k = "query_params" -> EmptyDict
                      [] k = "timestamp" -> now
                      [] k = "level_name" -> "INFO"
                      [] k = "level" -> INFO
                      [] k = "url" -> UrlOf(req.path)
                      [] k = "url_mask" -> UrlOf(req.path)
                      [] k = "request_path" -> req.path
                      [] k = "headers" -> req.headers]
        named == IF AppTitle # "" THEN Put(base, "facility", AppTitle) ELSE base
    IN  IF Has(named, "facility")
        THEN Put(named, "action_name", <<named["facility"], ".", "HTTPMiddleware">>)
        ELSE Put(named, "action_name", <<"HTTPMiddleware">>)

\* __receive replaying the text parse_body logs, newlines stripped.
receive_stripped(body) == [type |-> "http.request", body |-> Without(body, "\n")]

\* parse_body's closure __receive: the message request._receive now returns.
receive_patched(body) == [type |-> "http.request", body |-> body]

\* parse_body, after the read: decode, strip the newlines, parse JSON when the
\* content type says so.  The result is a str, or the parsed value.
parse_body(body, headers) ==
    LET payload == Without(Utf8Decode(body), "\n")
    IN  IF payload = <<>> THEN [type |-> "str", text |-> payload]
        ELSE IF headers["content-type"] = "application/json" /\ JsonValid(payload)
             THEN [type |-> "json", text |-> payload]
        ELSE [type |-> "str", text |-> payload]

\* parse_body calling json.loads whatever the payload.
calls_json_loads_on_empty(body, headers) ==
    headers["content-type"] = "application/json"

\* parse_body reaches json.loads: the payload is not empty (lines 84-85) and
\* the content type is application/json (lines 87-88).
calls_json_loads(body, headers) ==
    LET payload == Without(Utf8Decode(body), "\n")
    IN  /\ payload # <<>>
        /\ headers["content-type"] = "application/json"

\* parse_body raises out of json.loads: line 91 catches JSONDecodeError only.
parse_body_raises(body, headers) ==
    LET payload == Without(Utf8Decode(body), "\n")
    IN  /\ calls_json_loads(body, headers)
        /\ JsonTooDeep(payload)

\* The except block without its stack_trace line.
except_block_no_trace(ctx, e) ==
    Put(Put(Put(Put(ctx, "level_name", "ERROR"), "level", ERROR),
        "exception", e.msg), "status_code", 500)

\* The except block of _proxy, up to its call of log.
except_block(ctx, e) ==
    Put(Put(Put(Put(Put(ctx, "level_name", "ERROR"), "level", ERROR),
        "exception", e.msg), "stack_trace", e.tb), "status_code", 500)

\* The finally block of _proxy.
finally_block(ctx, rt) ==
    IF rt # NoRoute THEN Put(ctx, "url_mask", BaseUrl \o Tail(rt)) ELSE ctx

\* round(x, 4) of a time in microseconds: the nearest multiple of 100, a tie
\* going to the even multiple.
RoundQuantum == 100

\* The difference left as it is, without round.
not_rounded(d) == d

round4(d) ==
    LET q == d \div RoundQuantum
        r == d % RoundQuantum
    IN  IF 2 * r < RoundQuantum THEN q * RoundQuantum
        ELSE IF 2 * r > RoundQuantum THEN (q + 1) * RoundQuantum
        ELSE IF q % 2 = 0 THEN q * RoundQuantum ELSE (q + 1) * RoundQuantum

\* The success path's updates of the context, with the clock reading.
success_block(ctx, response, text, now) ==
    Put(Put(Put(ctx, "status_code", response.status_code), "response_data", text),
        "elapsed", round4(now - ctx["timestamp"]))

\* dict(response.headers): one entry per name, holding the first value.
RECURSIVE DictItems(_, _)
DictItems(h, names) ==
    IF h = <<>> THEN <<>>
    ELSE IF Head(h)[1] \in names THEN DictItems(Tail(h), names)
    ELSE <<Head(h)>> \o DictItems(Tail(h), names \cup {Head(h)[1]})

dict_headers(h) == DictItems(h, {})

\* _proxy returning the response of call_next itself.
same_response(text, response) == response

\* The Response _proxy returns.
new_response(text, response) ==
    [made_by |-> "_proxy", status_code |-> response.status_code,
     headers |-> dict_headers(response.headers),
     media_type |-> response.media_type, body |-> Utf8Encode(text)]

\* log: prints the event with the context as it is at the call.
log(evs, event_method, event, ctx) ==
    Append(evs, [event_method |-> event_method, event |-> event, context |-> ctx])

--------------------------------------------------------------------------
(* State *)

NoResponse ==
    [made_by |-> "nobody", status_code |-> 0, headers |-> <<>>,
     media_type |-> "None", body |-> <<>>]
NoExc == Exc("", "", <<>>)

Pending == [kind |-> "pending", response |-> NoResponse, exc |-> NoExc]
Returned(r) == [kind |-> "returned", response |-> r, exc |-> NoExc]
Raised(e) == [kind |-> "raised", response |-> NoResponse, exc |-> e]

InitTasks(T) ==
    /\ pc = [t \in T |-> "proxy"]
    /\ request \in [T -> Requests]
    /\ receive = [t \in T |-> [patched |-> FALSE, body |-> <<>>]]
    /\ wire = [t \in T |-> [read_by |-> "nobody", body |-> <<>>]]
    /\ route = [t \in T |-> NoRoute]
    /\ context = [t \in T |-> EmptyDict]
    /\ events = [t \in T |-> <<>>]
    /\ downstream = [t \in T |-> [calls |-> 0, outcome |-> Pending]]
    /\ seen = [t \in T |-> <<>>]
    /\ iterator = [t \in T |-> [yielded |-> <<>>, exhausted |-> FALSE]]
    /\ content = [t \in T |-> <<>>]
    /\ elapsedAt = [t \in T |-> <<>>]
    /\ history = [t \in T |-> <<>>]
    /\ result = [t \in T |-> Pending]

\* One request at a time: a single task.
OneTask == {1}

\* _http_middleware passes exclude_paths=EXCLUDE_PATHS.
Init ==
    /\ InitTasks(OneTask)
    /\ exclude_paths = [t \in OneTask |-> PathList(EXCLUDE_PATHS)]

\* proxy finishes: its caller gets the response, or the exception.
Finish(t, how) ==
    /\ result' = [result EXCEPT ![t] = how]
    /\ pc' = [pc EXCEPT ![t] = "done"]

--------------------------------------------------------------------------
(* proxy and _proxy, up to the call of call_next *)

\* proxy awaiting call_next for an excluded URL without returning its
\* response: the call falls through to _proxy.
ProxyBypassFallsThrough(t) ==
    /\ UNCHANGED exclude_paths
    /\ pc[t] = "proxy"
    /\ Excluded(exclude_paths[t], UrlOf(request[t].path))
    /\ downstream' = [downstream EXCEPT ![t].calls = @ + 1]
    /\ history' = [history EXCEPT ![t] = Append(@, "call_next")]
    /\ \E now \in Clock :
           context' = [context EXCEPT ![t] = init_context(request[t], now)]
    /\ pc' = [pc EXCEPT ![t] =
                 IF request[t].method \in BodyMethods THEN "read_body"
                 ELSE "log_request"]
    /\ UNCHANGED <<request, receive, wire, route, events, seen, iterator,
                   content, elapsedAt, result>>

\* proxy, the URL matching a pattern: return await call_next(request).
ProxyBypass(t) ==
    /\ UNCHANGED exclude_paths
    /\ pc[t] = "proxy"
    /\ Excluded(exclude_paths[t], UrlOf(request[t].path))
    /\ downstream' = [downstream EXCEPT ![t].calls = @ + 1]
    /\ history' = [history EXCEPT ![t] = Append(@, "call_next")]
    /\ pc' = [pc EXCEPT ![t] = "forward"]
    /\ UNCHANGED <<request, receive, wire, route, context, events, seen,
                   iterator, content, elapsedAt, result>>

\* proxy otherwise: _proxy, from init_context to its first await or log call.
ProxyLogged(t) ==
    /\ UNCHANGED exclude_paths
    /\ pc[t] = "proxy"
    /\ ~Excluded(exclude_paths[t], UrlOf(request[t].path))
    /\ \E now \in Clock :
           context' = [context EXCEPT ![t] = init_context(request[t], now)]
    /\ pc' = [pc EXCEPT ![t] =
                 IF request[t].method \in BodyMethods THEN "read_body"
                 ELSE "log_request"]
    /\ UNCHANGED <<request, receive, wire, route, events, downstream, seen,
                   iterator, content, elapsedAt, history, result>>

\* parse_body: request.body() returns the body; _receive is replaced; the
\* decode raises on bytes that are not UTF-8, and json.loads on a text nested
\* too deep.
ReadBody(t) ==
    /\ UNCHANGED exclude_paths
    /\ pc[t] = "read_body"
    /\ \E body \in Bodies :
        /\ wire' = [wire EXCEPT ![t] = [read_by |-> "middleware", body |-> body]]
        /\ receive' = [receive EXCEPT ![t] = [patched |-> TRUE, body |-> body]]
        /\ IF ~Utf8Valid(body)
           THEN /\ Finish(t, Raised(DecodeError))
                /\ UNCHANGED context
           ELSE IF parse_body_raises(body, request[t].headers)
           THEN /\ Finish(t, Raised(NestingError))
                /\ UNCHANGED context
           ELSE /\ context' = [context EXCEPT ![t] =
                       Put(@, "request_data", parse_body(body, request[t].headers))]
                /\ pc' = [pc EXCEPT ![t] = "log_request"]
                /\ UNCHANGED result
        /\ history' = [history EXCEPT ![t] =
                           IF Utf8Valid(body) /\ calls_json_loads(body, request[t].headers)
                           THEN Append(@, "json.loads") ELSE @]
    /\ UNCHANGED <<request, route, events, downstream, seen, iterator, content,
                   elapsedAt>>

\* parse_body: request.body() raises (a timeout, a cancellation).
ReadBodyRaises(t) ==
    /\ UNCHANGED exclude_paths
    /\ pc[t] = "read_body"
    /\ \E e \in BodyFailures : Finish(t, Raised(e))
    /\ UNCHANGED <<request, receive, wire, route, context, events, downstream,
                   seen, iterator, content, elapsedAt, history>>

\* The "HTTP Request" log call, then call_next(request).
LogRequest(t) ==
    /\ UNCHANGED exclude_paths
    /\ pc[t] = "log_request"
    /\ events' = [events EXCEPT ![t] =
                     log(@, context[t]["level_name"], "HTTP Request", context[t])]
    /\ downstream' = [downstream EXCEPT ![t].calls = @ + 1]
    /\ history' = [history EXCEPT ![t] = @ \o <<"HTTP Request", "call_next">>]
    /\ pc' = [pc EXCEPT ![t] = "call_next"]
    /\ UNCHANGED <<request, receive, wire, route, context, seen, iterator,
                   content, elapsedAt, result>>

--------------------------------------------------------------------------
(* call_next: the downstream handler *)

\* The handler reads the request body through request._receive: __receive's
\* message once parse_body has replaced it, the client's stream otherwise.
HandlerReadsBody(t) ==
    /\ UNCHANGED exclude_paths
    /\ pc[t] \in {"forward", "call_next"}
    /\ Len(seen[t]) < MaxReads
    /\ IF receive[t].patched
       THEN /\ seen' = [seen EXCEPT ![t] = Append(@, receive_patched(receive[t].body).body)]
            /\ UNCHANGED wire
       ELSE /\ wire[t].read_by = "nobody"
            /\ \E body \in Bodies :
                /\ wire' = [wire EXCEPT ![t] = [read_by |-> "handler", body |-> body]]
                /\ seen' = [seen EXCEPT ![t] = Append(@, body)]
    /\ UNCHANGED <<pc, request, receive, route, context, events, downstream,
                   iterator, content, elapsedAt, history, result>>

\* call_next returns a response; the router may have set scope["route"].
\* On the logged path the finally block runs and parse_response starts.
CallNextReturns(t) ==
    /\ UNCHANGED exclude_paths
    /\ pc[t] \in {"forward", "call_next"}
    /\ \E r \in Responses, rt \in {NoRoute, RouteOf(request[t].path)} :
        /\ downstream' = [downstream EXCEPT ![t].outcome = Returned(r)]
        /\ route' = [route EXCEPT ![t] = rt]
        /\ history' = [history EXCEPT ![t] = Append(@, "returned")]
        /\ IF pc[t] = "forward"
           THEN /\ Finish(t, Returned(r))
                /\ UNCHANGED context
           ELSE /\ context' = [context EXCEPT ![t] = finally_block(@, rt)]
                /\ pc' = [pc EXCEPT ![t] = "drain"]
                /\ UNCHANGED result
    /\ UNCHANGED <<request, receive, wire, events, seen, iterator, content, elapsedAt>>

\* call_next raises.  On the logged path `except Exception` takes an Exception
\* to its log call; anything else goes through the finally block and out.
CallNextRaises(t) ==
    /\ UNCHANGED exclude_paths
    /\ pc[t] \in {"forward", "call_next"}
    /\ \E e \in CallNextFailures, rt \in {NoRoute, RouteOf(request[t].path)} :
        /\ downstream' = [downstream EXCEPT ![t].outcome = Raised(e)]
        /\ route' = [route EXCEPT ![t] = rt]
        /\ history' = [history EXCEPT ![t] = Append(@, "raised")]
        /\ IF pc[t] = "forward"
           THEN /\ Finish(t, Raised(e))
                /\ UNCHANGED context
           ELSE IF IsException(e)
           THEN /\ context' = [context EXCEPT ![t] = except_block(@, e)]
                /\ pc' = [pc EXCEPT ![t] = "log_error"]
                /\ UNCHANGED result
           ELSE /\ context' = [context EXCEPT ![t] = finally_block(@, rt)]
                /\ Finish(t, Raised(e))
    /\ UNCHANGED <<request, receive, wire, events, seen, iterator, content, elapsedAt>>

--------------------------------------------------------------------------
(* _proxy after call_next *)

\* The "HTTP Error" log call, `raise e`, and then the finally block.
LogFailed(t) ==
    /\ UNCHANGED exclude_paths
    /\ pc[t] = "log_error"
    /\ events' = [events EXCEPT ![t] =
                     log(@, context[t]["level_name"], "HTTP Error", context[t])]
    /\ history' = [history EXCEPT ![t] = Append(@, "HTTP Error")]
    /\ context' = [context EXCEPT ![t] = finally_block(@, route[t])]
    /\ Finish(t, Raised(downstream[t].outcome.exc))
    /\ UNCHANGED <<request, receive, wire, route, downstream, seen, iterator,
                   content, elapsedAt>>

\* parse_response: the body iterator yields one more chunk.
Drain(t) ==
    /\ UNCHANGED exclude_paths
    /\ pc[t] = "drain"
    /\ Len(iterator[t].yielded) < MaxChunks
    /\ \E chunk \in Chunks :
        /\ iterator' = [iterator EXCEPT ![t].yielded = Append(@, chunk)]
        /\ content' = [content EXCEPT ![t] = @ \o chunk]
    /\ UNCHANGED <<pc, request, receive, wire, route, context, events, downstream,
                   seen, elapsedAt, history, result>>

\* parse_response: the body iterator raises.
DrainRaises(t) ==
    /\ UNCHANGED exclude_paths
    /\ pc[t] = "drain"
    /\ \E e \in StreamFailures : Finish(t, Raised(e))
    /\ UNCHANGED <<request, receive, wire, route, context, events, downstream,
                   seen, iterator, content, elapsedAt, history>>

\* parse_response: the body iterator ends and the content is decoded (raising
\* on bytes that are not UTF-8); then _proxy's updates of the context.
DrainEnds(t) ==
    /\ UNCHANGED exclude_paths
    /\ pc[t] = "drain"
    /\ iterator' = [iterator EXCEPT ![t].exhausted = TRUE]
    /\ IF Utf8Valid(content[t])
       THEN \E now \in Clock :
            /\ content' = [content EXCEPT ![t] = Utf8Decode(@)]
            /\ context' = [context EXCEPT ![t] =
                   success_block(@, downstream[t].outcome.response,
                                 Utf8Decode(content[t]), now)]
            /\ elapsedAt' = [elapsedAt EXCEPT ![t] = Append(@, now)]
            /\ pc' = [pc EXCEPT ![t] = "log_response"]
            /\ UNCHANGED result
       ELSE /\ Finish(t, Raised(DecodeError))
            /\ UNCHANGED <<content, context, elapsedAt>>
    /\ UNCHANGED <<request, receive, wire, route, events, downstream, seen, history>>

\* The "HTTP Response" log call, and the return of the rebuilt Response.
LogResponse(t) ==
    /\ UNCHANGED exclude_paths
    /\ pc[t] = "log_response"
    /\ events' = [events EXCEPT ![t] =
                     log(@, context[t]["level_name"], "HTTP Response", context[t])]
    /\ history' = [history EXCEPT ![t] = Append(@, "HTTP Response")]
    /\ Finish(t, Returned(new_response(content[t], downstream[t].outcome.response)))
    /\ UNCHANGED <<request, receive, wire, route, context, downstream, seen,
                   iterator, content, elapsedAt>>

--------------------------------------------------------------------------
(* The specification: log prints and returns *)

Next ==
    \E t \in OneTask :
        \/ ProxyBypass(t)
        \/ ProxyLogged(t)
        \/ ReadBody(t)
        \/ ReadBodyRaises(t)
        \/ LogRequest(t)
        \/ HandlerReadsBody(t)
        \/ CallNextReturns(t)
        \/ CallNextRaises(t)
        \/ LogFailed(t)
        \/ Drain(t)
        \/ DrainRaises(t)
        \/ DrainEnds(t)
        \/ LogResponse(t)

Spec == Init /\ [][Next]_vars

--------------------------------------------------------------------------
(* The specification with a logging collaborator that can fail: log raises *)
(* instead of printing.  Nothing in _proxy catches it.                     *)

\* The "HTTP Request" log call raises: _proxy ends before call_next.
LogRequestRaises(t) ==
    /\ UNCHANGED exclude_paths
    /\ pc[t] = "log_request"
    /\ history' = [history EXCEPT ![t] = Append(@, "log raised")]
    /\ Finish(t, Raised(LogError))
    /\ UNCHANGED <<request, receive, wire, route, context, events, downstream,
                   seen, iterator, content, elapsedAt>>

\* The "HTTP Error" log call raises inside the except block: the finally
\* block runs and the log's exception leaves _proxy.
LogFailedRaises(t) ==
    /\ UNCHANGED exclude_paths
    /\ pc[t] = "log_error"
    /\ history' = [history EXCEPT ![t] = Append(@, "log raised")]
    /\ context' = [context EXCEPT ![t] = finally_block(@, route[t])]
    /\ Finish(t, Raised(LogError))
    /\ UNCHANGED <<request, receive, wire, route, events, downstream, seen,
                   iterator, content, elapsedAt>>

\* The "HTTP Response" log call raises: no Response is returned.
LogResponseRaises(t) ==
    /\ UNCHANGED exclude_paths
    /\ pc[t] = "log_response"
    /\ history' = [history EXCEPT ![t] = Append(@, "log raised")]
    /\ Finish(t, Raised(LogError))
    /\ UNCHANGED <<request, receive, wire, route, context, events, downstream,
                   seen, iterator, content, elapsedAt>>

NextLogFail ==
    \/ Next
    \/ \E t \in OneTask :
        \/ LogRequestRaises(t)
        \/ LogFailedRaises(t)
        \/ LogResponseRaises(t)

SpecLogFail == Init /\ [][NextLogFail]_vars

--------------------------------------------------------------------------
(* The specification of two requests in flight at once: asyncio runs one   *)
(* task at a time and switches at the awaits, so the steps of the two      *)
(* tasks interleave in every order.                                        *)

TwoTasks == {1, 2}

\* The requests of the concurrent runs: task 1 sends a body, task 2 sends
\* none, to a logged or to an excluded path.
ConcurrentRequests ==
    [t \in TwoTasks |->
        IF t = 1
        THEN {req \in Requests :
                /\ req.method = "POST"
                /\ req.path = <<"/", "users", "/", "42">>
                /\ req.headers["content-type"] = "application/json"}
        ELSE {req \in Requests :
                /\ req.method = "GET"
                /\ req.path \in {<<"/", "users", "/", "42">>, <<"/", "healthcheck">>}
                /\ req.headers["content-type"] = "text/plain"}]

InitConcurrent ==
    /\ InitTasks(TwoTasks)
    /\ \A t \in TwoTasks : request[t] \in ConcurrentRequests[t]
    /\ exclude_paths = [t \in TwoTasks |-> PathList(EXCLUDE_PATHS)]

\* The inputs of the concurrent runs: short bodies, one handler read, one
\* chunk, a plain response.
Narrow ==
    \A t \in DOMAIN pc :
        /\ wire[t].body \in {<<>>, <<"{}">>, <<"c3">>}
        /\ Len(seen[t]) <= 1
        /\ iterator[t].yielded \in {<<>>, << <<"a">> >>}
        /\ downstream[t].outcome.kind = "returned"
               => downstream[t].outcome.response.status_code = 200
        /\ downstream[t].outcome.kind = "raised"
               => downstream[t].outcome.exc \in {HandlerError, Cancelled}

NextConcurrent ==
    \E t \in TwoTasks :
        \/ ProxyBypass(t) /\ Narrow'
        \/ ProxyLogged(t) /\ Narrow'
        \/ ReadBody(t) /\ Narrow'
        \/ ReadBodyRaises(t) /\ Narrow'
        \/ LogRequest(t) /\ Narrow'
        \/ HandlerReadsBody(t) /\ Narrow'
        \/ CallNextReturns(t) /\ Narrow'
        \/ CallNextRaises(t) /\ Narrow'
        \/ LogFailed(t) /\ Narrow'
        \/ Drain(t) /\ Narrow'
        \/ DrainRaises(t) /\ Narrow'
        \/ DrainEnds(t) /\ Narrow'
        \/ LogResponse(t) /\ Narrow'

SpecConcurrent == InitConcurrent /\ [][NextConcurrent]_vars

--------------------------------------------------------------------------
(* The specification of proxy called directly, with any exclude_paths:     *)
(* None, an empty set, the module's list, or a set of one pattern.        *)

ExclusionLists ==
    {None, PathList({}), PathList(EXCLUDE_PATHS), PathList({<<"/", "docs">>})}

InitProxy ==
    /\ InitTasks(OneTask)
    /\ exclude_paths \in [OneTask -> ExclusionLists]

NextProxy ==
    \E t \in OneTask :
        \/ ProxyBypass(t) /\ Narrow'
        \/ ProxyLogged(t) /\ Narrow'
        \/ ReadBody(t) /\ Narrow'
        \/ ReadBodyRaises(t) /\ Narrow'
        \/ LogRequest(t) /\ Narrow'
        \/ HandlerReadsBody(t) /\ Narrow'
        \/ CallNextReturns(t) /\ Narrow'
        \/ CallNextRaises(t) /\ Narrow'
        \/ LogFailed(t) /\ Narrow'
        \/ Drain(t) /\ Narrow'
        \/ DrainRaises(t) /\ Narrow'
        \/ DrainEnds(t) /\ Narrow'
        \/ LogResponse(t) /\ Narrow'

SpecProxy == InitProxy /\ [][NextProxy]_vars

--------------------------------------------------------------------------
(* Vocabulary of the properties *)

\* The paths whose full URL matches at least one exclusion pattern.
MatchingPaths ==
    {path \in Paths : \E pattern \in EXCLUDE_PATHS : ReMatch(pattern, UrlOf(path))}

\* The request's full URL matches at least one exclusion pattern.
UrlExcluded(t) == request[t].path \in MatchingPaths

Done(t) == pc[t] = "done"

TerminalNames == {"HTTP Response", "HTTP Error"}

\* The names of the events a task has emitted, in order.
EventNames(t) == [i \in DOMAIN events[t] |-> events[t][i].event]

Count(s, S) == Cardinality({i \in DOMAIN s : s[i] \in S})

\* Every x of s comes before every y of s.
Before(s, x, y) ==
    \A i, j \in DOMAIN s : (s[i] = x /\ s[j] = y) => i < j

CallNextOutcome(t) == downstream[t].outcome

--------------------------------------------------------------------------
(* C1 *)

\* C1: for every request that is not excluded, however proxy finishes (a
\* response, or a failure from the request body read, from call_next or from
\* the response body iterator), exactly one terminal event ("HTTP Response"
\* or "HTTP Error") has been emitted by then.
C1_ExactlyOneTerminalEvent ==
    \A t \in DOMAIN pc :
        (Done(t) /\ ~UrlExcluded(t)) => Count(EventNames(t), TerminalNames) = 1

--------------------------------------------------------------------------
(* C2 *)

\* C2: for every request that is not excluded there is exactly one "HTTP
\* Request" event, emitted before call_next is invoked, and a terminal event
\* comes only after call_next returned or raised; the events are exactly
\* [HTTP Request, HTTP Response] when call_next returned and exactly
\* [HTTP Request, HTTP Error] when it raised.
C2_EventOrder ==
    \A t \in DOMAIN pc :
        ~UrlExcluded(t) =>
            /\ Before(history[t], "HTTP Request", "call_next")
            /\ Before(history[t], "returned", "HTTP Response")
            /\ Before(history[t], "raised", "HTTP Error")
            /\ Count(history[t], TerminalNames) > 0 =>
                   Count(history[t], {"returned", "raised"}) > 0
            /\ Done(t) =>
                /\ Count(EventNames(t), {"HTTP Request"}) = 1
                /\ CallNextOutcome(t).kind = "returned" =>
                       EventNames(t) = <<"HTTP Request", "HTTP Response">>
                /\ CallNextOutcome(t).kind = "raised" =>
                       EventNames(t) = <<"HTTP Request", "HTTP Error">>

--------------------------------------------------------------------------
(* C3 *)

--------------------------------------------------------------------------
(* C4 *)

\* C4: for every request whose full URL matches an exclusion pattern, proxy
\* builds no context, emits no event, reads neither the request body nor the
\* response body, and ends exactly as call_next(request) ended: with the
\* same response object, or with the same failure.
C4_ExcludedIsForwarded ==
    \A t \in DOMAIN pc :
        UrlExcluded(t) =>
            /\ context[t] = EmptyDict
            /\ events[t] = <<>>
            /\ elapsedAt[t] = <<>>
            /\ wire[t].read_by # "middleware"
            /\ ~receive[t].patched
            /\ iterator[t] = [yielded |-> <<>>, exhausted |-> FALSE]
            /\ downstream[t].calls <= 1
            /\ Done(t) =>
                /\ CallNextOutcome(t).kind # "pending"
                /\ result[t] = CallNextOutcome(t)

\* An excluded request answered 404 downstream has been forwarded silently.
C4_Witness ==
    \E t \in DOMAIN pc :
        /\ Done(t)
        /\ request[t].path = <<"/", "healthcheck">>
        /\ request[t].method = "POST"
        /\ result[t].kind = "returned"
        /\ result[t].response.made_by = "call_next"
        /\ result[t].response.status_code = 404

--------------------------------------------------------------------------
(* C5 *)

\* C5: for every PATCH/POST/PUT request, once parse_body has read the body,
\* every read of the request body by the downstream handler, the first and
\* any later one, yields exactly the bytes the client sent, newlines included.
C5_BodyReplayed ==
    \A t \in DOMAIN pc :
        (request[t].method \in BodyMethods /\ wire[t].read_by = "middleware") =>
            \A i \in DOMAIN seen[t] : seen[t][i] = wire[t].body

\* The handler has read twice a body that parse_body stripped and parsed.
C5_Witness ==
    \E t \in DOMAIN pc :
        /\ request[t].method = "POST"
        /\ wire[t] = [read_by |-> "middleware", body |-> <<"{}", "\n">>]
        /\ Has(context[t], "request_data")
        /\ context[t]["request_data"] = [type |-> "json", text |-> <<"{}">>]
        /\ seen[t] = << <<"{}", "\n">>, <<"{}", "\n">> >>

--------------------------------------------------------------------------
(* C6 *)

\* C6: for every request that is not excluded and on which call_next returns
\* a response, the response proxy returns has a body equal, byte for byte, to
\* the concatenation in order of all chunks of the original body iterator,
\* and the original status code, headers and media type.
C6_ResponseRebuilt ==
    \A t \in DOMAIN pc :
        (/\ ~UrlExcluded(t)
         /\ CallNextOutcome(t).kind = "returned"
         /\ result[t].kind = "returned") =>
            LET original == CallNextOutcome(t).response
                rebuilt == result[t].response
            IN  /\ rebuilt.body = Concat(iterator[t].yielded)
                /\ rebuilt.status_code = original.status_code
                /\ rebuilt.headers = original.headers
                /\ rebuilt.media_type = original.media_type

--------------------------------------------------------------------------
(* C7 *)

\* The request body read was cancelled or timed out.
BodyReadAborted(t) ==
    /\ Done(t)
    /\ downstream[t].calls = 0
    /\ result[t] \in {Raised(e) : e \in BodyFailures}

\* call_next was cancelled or timed out.
CallNextAborted(t) ==
    /\ CallNextOutcome(t).kind = "raised"
    /\ CallNextOutcome(t).exc.cls \in {"CancelledError", "TimeoutError"}

\* C7: if the downstream handler call or the request body read is cancelled
\* or times out on a request that is not excluded, an "HTTP Error" event is
\* emitted before the signal leaves proxy, and the signal itself is what
\* proxy raises.
C7_CancellationLogged ==
    \A t \in DOMAIN pc :
        (~UrlExcluded(t) /\ Done(t) /\ (BodyReadAborted(t) \/ CallNextAborted(t))) =>
            /\ Count(EventNames(t), {"HTTP Error"}) = 1
            /\ result[t].kind = "raised"
            /\ CallNextAborted(t) => result[t] = CallNextOutcome(t)

--------------------------------------------------------------------------
(* C8 *)

\* C8: on the success path and on the failure path alike, when the request
\* has a matched route, the context printed with the terminal event already
\* carries url_mask = base_url + route template.
C8_MaskedBeforeTerminalEvent ==
    \A t \in DOMAIN pc :
        \A i \in DOMAIN events[t] :
            (events[t][i].event \in TerminalNames /\ route[t] # NoRoute) =>
                events[t][i].context["url_mask"] = BaseUrl \o Tail(route[t])

--------------------------------------------------------------------------
(* C9 *)

\* C9: when log raises (on "HTTP Request" or on a terminal event), call_next
\* is still invoked, and the caller of proxy still receives the rebuilt
\* response when call_next returned, or call_next's own failure when it raised.
C9_LogFailureHarmless ==
    \A t \in DOMAIN pc :
        (~UrlExcluded(t) /\ Done(t) /\ Count(history[t], {"log raised"}) > 0) =>
            /\ downstream[t].calls = 1
            /\ CallNextOutcome(t).kind = "returned" =>
                   /\ result[t].kind = "returned"
                   /\ result[t].response.made_by = "_proxy"
            /\ CallNextOutcome(t).kind = "raised" => result[t] = CallNextOutcome(t)

--------------------------------------------------------------------------
(* C10 *)

\* The clock reading of the elapsed computation minus the context's timestamp.
Duration(t, ctx) == elapsedAt[t][1] - ctx["timestamp"]

Abs(n) == IF n < 0 THEN -n ELSE n

\* C10, as claimed: for every request that is not excluded the elapsed time
\* is computed exactly once, after call_next completed, so that the context
\* of the terminal event, "HTTP Response" or "HTTP Error", carries an elapsed
\* value, which is non-negative and equals the difference between the time of
\* the terminal step and the context's timestamp.
C10_ElapsedInEveryTerminalEvent ==
    \A t \in DOMAIN pc :
        \A i \in DOMAIN events[t] :
            events[t][i].event \in TerminalNames =>
                /\ Len(elapsedAt[t]) = 1
                /\ Has(events[t][i].context, "elapsed")
                /\ events[t][i].context["elapsed"] >= 0
                /\ events[t][i].context["elapsed"] = Duration(t, events[t][i].context)

\* C10, amended: the elapsed time is computed at most once, only after
\* call_next returned and the response body was drained, immediately before
\* the "HTTP Response" log call; the context printed with "HTTP Response"
\* carries it, and it is the difference between the clock reading of that
\* step and the context's timestamp rounded to 4 decimal places (a multiple
\* of 100 microseconds at most 50 away), non-negative when the clock did not
\* go back.  The contexts printed with "HTTP Request" and "HTTP Error" carry
\* no elapsed value.
C10_ElapsedOnSuccessRounded ==
    \A t \in DOMAIN pc :
        /\ Len(elapsedAt[t]) <= 1
        /\ Has(context[t], "elapsed") <=> Len(elapsedAt[t]) = 1
        /\ Len(elapsedAt[t]) = 1 =>
            /\ CallNextOutcome(t).kind = "returned"
            /\ iterator[t].exhausted
            /\ pc[t] \in {"log_response", "done"}
            /\ context[t]["timestamp"] \in Clock
        /\ (Done(t) /\ result[t].kind = "returned" /\ ~UrlExcluded(t)) =>
               Count(EventNames(t), {"HTTP Response"}) = 1
        /\ \A i \in DOMAIN events[t] :
            LET ctx == events[t][i].context
            IN  IF events[t][i].event = "HTTP Response"
                THEN /\ Len(elapsedAt[t]) = 1
                     /\ Has(ctx, "elapsed")
                     /\ ctx["elapsed"] % RoundQuantum = 0
                     /\ 2 * Abs(ctx["elapsed"] - Duration(t, ctx)) <= RoundQuantum
                     /\ Duration(t, ctx) >= 0 => ctx["elapsed"] >= 0
                     /\ ctx["timestamp"] = events[t][1].context["timestamp"]
                ELSE ~Has(ctx, "elapsed")

\* A response was logged 80 microseconds after the context was created, with
\* an elapsed time of 0.0001 s.
C10_Witness ==
    \E t \in DOMAIN pc :
        /\ Done(t)
        /\ elapsedAt[t] = <<80>>
        /\ Len(events[t]) = 2
        /\ events[t][2].event = "HTTP Response"
        /\ events[t][2].context["timestamp"] = 0
        /\ events[t][2].context["elapsed"] = 100

--------------------------------------------------------------------------
(* C11 *)

\* The severity a context holds: its level_name, when name and number agree.
IsInfo(ctx) == ctx["level_name"] = "INFO" /\ ctx["level"] = INFO
IsError(ctx) == ctx["level_name"] = "ERROR" /\ ctx["level"] = ERROR

\* Every event was emitted at the severity of its context: "HTTP Error" at
\* ERROR, the two others at INFO.
EventsAtTheirLevel(t) ==
    \A i \in DOMAIN events[t] :
        /\ events[t][i].event_method = events[t][i].context["level_name"]
        /\ IF events[t][i].event = "HTTP Error"
           THEN events[t][i].event_method = "ERROR" /\ IsError(events[t][i].context)
           ELSE events[t][i].event_method = "INFO" /\ IsInfo(events[t][i].context)

\* C11: a request's context is at INFO unless call_next has raised, and then
\* it is at ERROR and stays there; "HTTP Request" and "HTTP Response" are
\* always emitted at INFO and "HTTP Error" at ERROR; level_name and level
\* always denote the same severity.
C11_Severity ==
    /\ [](\A t \in DOMAIN pc :
            /\ context[t] # EmptyDict =>
                   IF CallNextOutcome(t).kind = "raised"
                   THEN IsError(context[t]) ELSE IsInfo(context[t])
            /\ EventsAtTheirLevel(t))
    /\ [][\A t \in DOMAIN pc :
            (context[t] # EmptyDict /\ IsError(context[t])) => IsError(context'[t])]_vars

--------------------------------------------------------------------------
(* C12 *)

\* C12: the request body is captured exactly for PATCH, POST and PUT: the
\* context of every event of such a request, the "HTTP Request" event
\* first, has a request_data entry; for any other method the interceptor
\* never reads the body or replaces _receive, and neither the context nor
\* any event has a request_data entry.
C12_BodyCaptureByMethod ==
    \A t \in DOMAIN pc :
        IF request[t].method \in {"PATCH", "POST", "PUT"}
        THEN /\ \A i \in DOMAIN events[t] : Has(events[t][i].context, "request_data")
             /\ pc[t] \in {"log_request", "call_next", "log_error", "drain", "log_response"}
                    => /\ Has(context[t], "request_data")
                       /\ wire[t].read_by = "middleware"
        ELSE /\ wire[t].read_by # "middleware"
             /\ ~receive[t].patched
             /\ ~Has(context[t], "request_data")
             /\ \A i \in DOMAIN events[t] : ~Has(events[t][i].context, "request_data")

\* A PUT whose "HTTP Request" event carries the captured body.
C12_Witness ==
    \E t \in DOMAIN pc :
        /\ request[t].method = "PUT"
        /\ Len(events[t]) >= 1
        /\ events[t][1].event = "HTTP Request"
        /\ events[t][1].context["request_data"] = [type |-> "json", text |-> <<"{}">>]
--------------------------------------------------------------------------
(* C13 *)

\* The request data parse_body falls back to: the text without its newlines.
RawText(body) == [type |-> "str", text |-> Without(Utf8Decode(body), "\n")]

\* The interceptor has read a body of text under Content-Type application/json.
JsonBodyRead(t) ==
    /\ request[t].method \in BodyMethods
    /\ request[t].headers["content-type"] = "application/json"
    /\ wire[t].read_by = "middleware"
    /\ wire[t].body # <<>>
    /\ Utf8Valid(wire[t].body)

\* C13: under Content-Type application/json, a body of text that is not
\* empty and not valid JSON never makes parse_body raise: the context gets the
\* text without its newlines as request_data, "HTTP Request" is emitted and
\* call_next is invoked; a body that is valid JSON gives the parsed value.
C13_MalformedJsonFallsBack ==
    \A t \in DOMAIN pc :
        JsonBodyRead(t) =>
            /\ Has(context[t], "request_data")
            /\ context[t]["request_data"] =
                 IF JsonValid(RawText(wire[t].body).text)
                 THEN [type |-> "json", text |-> RawText(wire[t].body).text]
                 ELSE RawText(wire[t].body)
            /\ \/ pc[t] = "log_request"
               \/ /\ Len(events[t]) >= 1
                  /\ events[t][1].event = "HTTP Request"
                  /\ downstream[t].calls = 1
--------------------------------------------------------------------------
(* C14 *)

\* What one task owns: no step of another task may change it.
Own(t) == <<request[t], receive[t], context[t], events[t], result[t]>>

\* The task a step belongs to has moved, or its handler has read the body.
Stepped(t) == <<pc[t], seen[t]>>

\* Every event of a task carries the data of that task's request only.
EventsAreOwn(t) ==
    \A i \in DOMAIN events[t] :
        LET ctx == events[t][i].context
        IN  /\ ctx["method"] = request[t].method
            /\ ctx["url"] = UrlOf(request[t].path)
            /\ ctx["request_path"] = request[t].path
            /\ ctx["headers"] = request[t].headers
            /\ Has(ctx, "request_data") =>
                   ctx["request_data"] = parse_body(wire[t].body, request[t].headers)

\* The events of a finished request: received, then exactly one terminal event.
EventsAreComplete(t) ==
    (Done(t) /\ ~UrlExcluded(t)) =>
        /\ Len(events[t]) = 2
        /\ events[t][1].event = "HTTP Request"
        /\ events[t][2].event \in TerminalNames

\* C14: with two requests in flight and their steps interleaved in every
\* order, every event carries the data of its own request only, each
\* request's events are "HTTP Request" followed by exactly one terminal
\* event, and a step of one request changes nothing another request owns
\* (its context, its events, its request and replaced _receive, its result).
C14_RequestsIsolated ==
    /\ [](\A t \in DOMAIN pc : EventsAreOwn(t) /\ EventsAreComplete(t))
    /\ [][\A t, u \in DOMAIN pc :
            (t # u /\ Stepped(t)' # Stepped(t)) => Own(u)' = Own(u)]_vars
--------------------------------------------------------------------------
(* C15 *)

\* The url_mask the terminal event is to carry: the URL when no route
\* matched, else base_url and the route's template without its leading slash.
MaskOf(t) ==
    IF route[t] = NoRoute THEN UrlOf(request[t].path)
    ELSE BaseUrl \o Tail(route[t])

\* A context still has the url, request_path, method and timestamp it was
\* created with (the timestamp being the one of the "HTTP Request" event).
KeepsCreationValues(t, ctx) ==
    /\ ctx["url"] = UrlOf(request[t].path)
    /\ ctx["request_path"] = request[t].path
    /\ ctx["method"] = request[t].method
    /\ events[t] # <<>> => ctx["timestamp"] = events[t][1].context["timestamp"]

\* C15: the "HTTP Request" event has url_mask equal to url; the terminal
\* event has url_mask equal to url when no route matched, and equal to
\* base_url followed by the route's template without its leading slash when
\* one did; url, request_path, method and timestamp keep their creation
\* values in the context and in every event.
C15_UrlMask ==
    \A t \in DOMAIN pc :
        /\ context[t] # EmptyDict => KeepsCreationValues(t, context[t])
        /\ \A i \in DOMAIN events[t] :
            LET ctx == events[t][i].context
            IN  /\ KeepsCreationValues(t, ctx)
                /\ events[t][i].event = "HTTP Request" => ctx["url_mask"] = ctx["url"]
                /\ events[t][i].event \in TerminalNames => ctx["url_mask"] = MaskOf(t)
--------------------------------------------------------------------------
(* C16 *)

\* The bytes the body iterator has yielded so far, each chunk once, in order.
Drained(t) == Concat(iterator[t].yielded)

\* C16: on a request that is not excluded and on which call_next returned,
\* the interceptor consumes each chunk of the response's body iterator
\* exactly once (what it has accumulated is the chunks yielded so far, in
\* order); the iterator has reached its end before "HTTP Response" is
\* emitted; and the caller never gets the response of call_next itself, but
\* one made by _proxy from the drained bytes.
C16_StreamDrainedOnce ==
    \A t \in DOMAIN pc :
        (~UrlExcluded(t) /\ CallNextOutcome(t).kind = "returned") =>
            /\ pc[t] = "drain" => content[t] = Drained(t)
            /\ pc[t] = "log_response" =>
                   iterator[t].exhausted /\ content[t] = Utf8Decode(Drained(t))
            /\ \A i \in DOMAIN events[t] :
                   events[t][i].event = "HTTP Response" =>
                       /\ iterator[t].exhausted
                       /\ events[t][i].context["response_data"] = Utf8Decode(Drained(t))
            /\ result[t].kind = "returned" =>
                   /\ iterator[t].exhausted
                   /\ result[t].response # CallNextOutcome(t).response
                   /\ result[t].response.made_by = "_proxy"
                   /\ result[t].response.body = Utf8Encode(Utf8Decode(Drained(t)))

\* A response streamed as two chunks that split one character, drained and
\* returned as one body.
C16_Witness ==
    \E t \in DOMAIN pc :
        /\ Done(t)
        /\ result[t].kind = "returned"
        /\ iterator[t].yielded = << <<"c3">>, <<"a9">> >>
        /\ iterator[t].exhausted
        /\ result[t].response.made_by = "_proxy"
        /\ result[t].response.body = <<"c3", "a9">>
        /\ events[t][2].context["response_data"] = <<"e'">>
--------------------------------------------------------------------------
(* C17 *)

\* The interceptor has read a body that is empty once its newlines are gone.
EmptyBodyRead(t) ==
    /\ request[t].method \in BodyMethods
    /\ wire[t].read_by = "middleware"
    /\ Without(wire[t].body, "\n") = <<>>

\* C17: for a PATCH, POST or PUT whose body is empty, or empty once its
\* newlines are stripped, parse_body returns the empty string and json.loads
\* is never called, whatever the Content-Type; and what the handler reads
\* afterwards is the original bytes, newlines included.
C17_EmptyBodyShortCircuit ==
    \A t \in DOMAIN pc :
        EmptyBodyRead(t) =>
            /\ Has(context[t], "request_data")
            /\ context[t]["request_data"] = [type |-> "str", text |-> <<>>]
            /\ Count(history[t], {"json.loads"}) = 0
            /\ receive[t].patched
            /\ receive_patched(receive[t].body).body = wire[t].body
            /\ \A i \in DOMAIN seen[t] : seen[t][i] = wire[t].body

\* A POST under application/json whose body is one newline: the empty string
\* is logged and the handler reads the newline.
C17_Witness ==
    \E t \in DOMAIN pc :
        /\ request[t].method = "POST"
        /\ request[t].headers["content-type"] = "application/json"
        /\ wire[t] = [read_by |-> "middleware", body |-> <<"\n">>]
        /\ seen[t] = << <<"\n">> >>
        /\ Len(events[t]) >= 1
        /\ events[t][1].context["request_data"] = [type |-> "str", text |-> <<>>]
--------------------------------------------------------------------------
(* C18 *)

\* A step before call_next failed: the body read, or parse_body after it.
FailedBeforeCallNext(t) ==
    /\ Done(t)
    /\ result[t].kind = "raised"
    /\ result[t].exc \in BodyFailures \cup {DecodeError, NestingError}
    /\ events[t] = <<>>

\* C18: in every call of proxy, on the excluded and on the logged path,
\* call_next is invoked at most once; it has been invoked exactly once as
\* soon as the steps before it (the exclusion test, the body read, the
\* "HTTP Request" event) are done, and is never invoked at all only when one
\* of them failed; it is not invoked again after it raised.
C18_CallNextOnce ==
    \A t \in DOMAIN pc :
        /\ downstream[t].calls <= 1
        /\ downstream[t].calls = Count(history[t], {"call_next"})
        /\ pc[t] \in {"proxy", "read_body", "log_request"} => downstream[t].calls = 0
        /\ pc[t] \in {"forward", "call_next", "log_error", "drain", "log_response"}
               => downstream[t].calls = 1
        /\ Done(t) => (downstream[t].calls = 0 <=> FailedBeforeCallNext(t))
        /\ CallNextOutcome(t).kind # "pending" => downstream[t].calls = 1

\* A request whose handler raised: one call of call_next, logged, not retried.
C18_Witness ==
    \E t \in DOMAIN pc :
        /\ Done(t)
        /\ CallNextOutcome(t) = Raised(HandlerError)
        /\ result[t] = Raised(HandlerError)
        /\ downstream[t].calls = 1
        /\ Len(events[t]) = 2
--------------------------------------------------------------------------
(* C19 *)

\* exclude_paths is None or empty.
NothingToExclude(t) == ~exclude_paths[t].given \/ exclude_paths[t].paths = {}

\* proxy forwarded the request without _proxy: no context was ever built.
Bypassed(t) == pc[t] # "proxy" /\ context[t] = EmptyDict

\* Some pattern of exclude_paths matches the full URL from its start.
SomePatternMatches(t) ==
    /\ exclude_paths[t].given
    /\ \E path \in exclude_paths[t].paths : ReMatch(path, UrlOf(request[t].path))

\* C19: when exclude_paths is None or empty no request is bypassed, whatever
\* its URL, and every request finishes with an "HTTP Request" event followed
\* by a terminal event; a request is bypassed only if exclude_paths is not
\* empty and at least one of its patterns matches the full URL from its start.
C19_NoListNoExclusion ==
    \A t \in DOMAIN pc :
        /\ Bypassed(t) => (~NothingToExclude(t) /\ SomePatternMatches(t))
        /\ (NothingToExclude(t) /\ Done(t)) =>
               /\ Len(events[t]) = 2
               /\ events[t][1].event = "HTTP Request"
               /\ events[t][2].event \in TerminalNames

====
